---- MODULE Spec2Model ----
(***************************************************************************)
(* Receipt backend: the OCR pipeline (preprocess, recognise, parse), the   *)
(* keyword-scoring categoriser and the POST /api/receipts handler that     *)
(* joins them and saves through the Receipt schema.                        *)
(*                                                                         *)
(* The specifications that share the module:                               *)
(*   SpecCat      categorizeReceipt applied to inputs drawn from CatInputs *)
(*   SpecCalls    calls into categorizationService, one after another      *)
(*   SpecParse    parseReceiptText applied to texts drawn from ParseTexts  *)
(*   SpecMerchant parseReceiptText on texts of MerchantTexts               *)
(*   SpecItems    parseReceiptText on texts of ItemTexts                   *)
(*   SpecCleanup  the daily cleanup job against a collection of receipts   *)
(*   SpecById     GET, PUT, DELETE and PUT archive requests on             *)
(*                /api/receipts/:id, interleaved at their awaits           *)
(*   SpecOcrCalls concurrent calls of processReceiptOCR on the images of   *)
(*                one directory                                            *)
(*   Spec         POST /api/receipts requests running processReceiptOCR,   *)
(*                categorizeReceipt and Receipt.save against a file system *)
(*                and a receipt collection                                 *)
(***************************************************************************)
EXTENDS Integers, Sequences, FiniteSets, TLC

VARIABLES
  catInput,     \* SpecCat: the CategorizationInput handed to categorizeReceipt
  catResult,    \* SpecCat: the settled promise, or Pending
  catScores,    \* SpecCat: categoryScores as the call left it, or Pending
  parseText,    \* SpecParse: the raw text handed to parseReceiptText
  parseResult,  \* SpecParse: the Partial<OCRResult>, or Pending
  files,        \* Spec: the upload directory, file name -> content
  req,          \* Spec: per request, the request as received (file, body, token)
  pc,           \* Spec: per request, the handler's position
  ocr,          \* Spec: per request, the locals of processReceiptOCR
  receiptData,  \* Spec: per request, the handler's receiptData
  response,     \* Spec: per request, the HTTP response sent, or Pending
  receipts,     \* Spec: the Receipt collection, a sequence of saved documents
  calls,        \* SpecCalls: the calls made into categorizationService, in order
  keywordTable, \* SpecCalls: the CATEGORY_KEYWORDS object as the calls left it
  collection,   \* SpecCleanup: the receipts in the database, id -> document
  cleanupTime,  \* SpecCleanup: the clock, as an index into RunTimes
  scheduler,    \* SpecCleanup: the state of the node-cron scheduler
  lastRun,      \* SpecCleanup: the last run of the cleanup job, or NoRun
  stored,       \* SpecById: the Receipt collection, id -> document
  ops,          \* SpecById: per request on /api/receipts/:id, its locals
  disk,         \* SpecOcrCalls: the directory of the images, path -> content
  jobs          \* SpecOcrCalls: per call of processReceiptOCR, its locals

callVars == << calls, keywordTable >>

cleanupVars == << collection, cleanupTime, scheduler, lastRun >>

byIdVars == << stored, ops >>

ocrCallVars == << disk, jobs >>

vars == << catInput, catResult, catScores, parseText, parseResult,
           files, req, pc, ocr, receiptData, response, receipts, callVars, cleanupVars,
                  byIdVars, ocrCallVars >>

Pending == [t |-> "pending"]

(***************************************************************************)
(* JavaScript values: a tag, and the payload under a field of its own so   *)
(* that values of different types compare unequal without comparing        *)
(* payloads.                                                               *)
(***************************************************************************)
JUndefined == [t |-> "undefined"]
JNull == [t |-> "null"]
JStr(s) == [t |-> "string", s |-> s]
JNum(n) == [t |-> "number", n |-> n]
JArr(a) == [t |-> "array", a |-> a]
JItem(name) == [t |-> "object", name |-> name]

\* A completion: a value returned, or an exception thrown.
Returned(v) == [threw |-> FALSE, value |-> v]
Thrown(e) == [threw |-> TRUE, error |-> e]

\* A settled promise.
Resolved(v) == [t |-> "resolved", value |-> v]
Rejected(e) == [t |-> "rejected", error |-> e]

(***************************************************************************)
(* Strings                                                                 *)
(***************************************************************************)
CharAt(s, i) == SubSeq(s, i, i)

UpperCaseLetters == "ABCDEFGHIJKLMNOPQRSTUVWXYZ"
LowerCaseLetters == "abcdefghijklmnopqrstuvwxyz"
Digits == "0123456789"

DigitSet == { CharAt(Digits, i) : i \in 1..10 }

IsDigit(c) == c \in DigitSet

\* The upper-case letters, each with its lower-case form.
LowerOf ==
  [c \in { CharAt(UpperCaseLetters, i) : i \in 1..26 } |->
     CharAt(LowerCaseLetters, CHOOSE i \in 1..26 : CharAt(UpperCaseLetters, i) = c)]

LowerChar(c) == IF c \in DOMAIN LowerOf THEN LowerOf[c] ELSE c

RECURSIVE toLowerCase(_)
toLowerCase(s) ==
  IF s = "" THEN ""
  ELSE LowerChar(CharAt(s, 1)) \o toLowerCase(SubSeq(s, 2, Len(s)))

\* String.prototype.includes
includes(s, k) ==
  \E i \in 1..(Len(s) - Len(k) + 1) : SubSeq(s, i, i + Len(k) - 1) = k

\* Number-to-string of a non-negative integer.
RECURSIVE NumToString(_)
NumToString(n) ==
  IF n < 10 THEN CharAt(Digits, n + 1)
  ELSE NumToString(n \div 10) \o CharAt(Digits, (n % 10) + 1)

\* What Array.prototype.join writes for one element.
JoinElem(v) ==
  CASE v.t = "string" -> v.s
    [] v.t = "number" -> NumToString(v.n)
    [] OTHER -> ""

RECURSIVE join(_, _)
join(a, sep) ==
  IF Len(a) = 0 THEN ""
  ELSE IF Len(a) = 1 THEN JoinElem(a[1])
  ELSE JoinElem(a[1]) \o sep \o join(Tail(a), sep)

Truthy(v) ==
  CASE v.t = "string" -> v.s # ""
    [] v.t = "number" -> v.n # 0
    [] v.t \in {"undefined", "null"} -> FALSE
    [] OTHER -> TRUE

(***************************************************************************)
(* categorizationService                                                   *)
(***************************************************************************)
CATEGORY_KEYWORDS ==
  <<
  << "Food & Dining",
     <<
        "restaurant", "cafe", "coffee", "pizza", "burger", "sushi", "food", "deli",
        "bakery", "bar", "pub", "grill", "bistro", "kitchen", "dining", "eatery",
        "takeout", "delivery", "mcdonalds", "starbucks", "subway", "kfc", "dominos",
        "pizza hut", "taco bell", "grocery", "supermarket", "walmart", "target",
        "kroger", "safeway", "whole foods" >> >>,
  << "Transportation",
     <<
        "gas", "fuel", "petrol", "shell", "bp", "exxon", "chevron", "uber", "lyft",
        "taxi", "bus", "train", "subway", "metro", "parking", "toll", "airline",
        "flight", "airport" >> >>,
  << "Shopping",
     <<
        "amazon", "ebay", "store", "shop", "retail", "mall", "department", "clothing",
        "fashion", "shoes", "electronics", "best buy", "apple store", "nike", "adidas" >> >>,
  << "Entertainment",
     <<
        "movie", "cinema", "theater", "concert", "tickets", "game", "sports", "netflix",
        "spotify", "music", "entertainment", "amusement", "park", "zoo", "museum" >> >>,
  << "Healthcare",
     <<
        "hospital", "clinic", "doctor", "medical", "pharmacy", "cvs", "walgreens",
        "prescription", "dental", "vision", "health", "medicine", "drug", "therapy",
        "treatment" >> >>,
  << "Travel",
     <<
        "hotel", "motel", "resort", "booking", "expedia", "airbnb", "rental car",
        "hertz", "avis", "enterprise", "travel", "vacation", "trip", "tourism" >> >>,
  << "Utilities",
     <<
        "electric", "electricity", "gas", "water", "internet", "phone", "cable",
        "utilities", "bill", "service", "att", "verizon", "comcast", "power", "energy" >> >>,
  << "Education",
     <<
        "school", "university", "college", "tuition", "books", "education", "learning",
        "course", "class", "training", "certification", "academic" >> >>,
  << "Business",
     <<
        "office", "supplies", "business", "professional", "consulting", "services",
        "meeting", "conference", "equipment", "software", "subscription" >> >>,
  << "Personal Care",
     <<
        "salon", "spa", "beauty", "barber", "hair", "nails", "cosmetics", "skincare",
        "personal care", "hygiene", "grooming", "wellness" >> >>,
  << "Home & Garden",
     <<
        "home depot", "lowes", "furniture", "garden", "hardware", "tools",
        "home improvement", "decoration", "appliances", "ikea", "bed bath beyond" >> >>,
  << "Insurance",
     <<
        "insurance", "policy", "premium", "coverage", "claim", "deductible", "allstate",
        "state farm", "geico", "progressive" >> >>,
  << "Investments",
     <<
        "investment", "stock", "bond", "mutual fund", "retirement", "401k", "ira",
        "brokerage", "trading", "dividend" >> >>,
  << "Gifts & Donations",
     <<
        "gift", "donation", "charity", "nonprofit", "giving", "present", "contribution",
        "fundraiser", "support" >> >>
  >>

CategoryNames == { CATEGORY_KEYWORDS[i][1] : i \in 1..Len(CATEGORY_KEYWORDS) }

\* input.items?.map(item => item.name) || []
ItemNamesOf(items) ==
  CASE items.t \in {"undefined", "null"} -> Returned(<< >>)
    [] items.t = "array" ->
         IF \E i \in 1..Len(items.a) : items.a[i].t \in {"undefined", "null"}
         THEN Thrown("TypeError")
         ELSE Returned([i \in 1..Len(items.a) |->
                          IF items.a[i].t = "object" THEN items.a[i].name
                          ELSE JUndefined])
    [] OTHER -> Thrown("TypeError")

\* [merchantName, description || '', ...names].join(' ').toLowerCase()
Haystack(input) ==
  LET names == ItemNamesOf(input.items)
      descr == IF Truthy(input.description) THEN input.description ELSE JStr("")
  IN  IF names.threw THEN names
      ELSE Returned(toLowerCase(
             join(<< input.merchantName, descr >> \o names.value, " ")))

\* The points one keyword adds: 3 on a merchant-name hit, 1 on any other
\* haystack hit, 0 on none.
KeywordPointsMutC6(text, merchant, keyword) ==
  IF includes(text, toLowerCase(keyword))
  THEN IF merchant.t # "string" THEN Thrown("TypeError")
       ELSE IF includes(toLowerCase(merchant.s), toLowerCase(keyword))
            THEN Returned(4) ELSE Returned(1)
  ELSE Returned(0)

KeywordPoints(text, merchant, keyword) ==
  IF includes(text, toLowerCase(keyword))
  THEN IF merchant.t # "string" THEN Thrown("TypeError")
       ELSE IF includes(toLowerCase(merchant.s), toLowerCase(keyword))
            THEN Returned(3) ELSE Returned(1)
  ELSE Returned(0)

\* The inner loop over one category's keywords, from keyword i on.
RECURSIVE ScoreFrom(_, _, _, _, _)
ScoreFrom(text, merchant, keywords, i, score) ==
  IF i > Len(keywords) THEN Returned(score)
  ELSE LET p == KeywordPoints(text, merchant, keywords[i])
       IN  IF p.threw THEN p
           ELSE ScoreFrom(text, merchant, keywords, i + 1, score + p.value)

\* The outer loop: categoryScores as the sequence Object.entries reads back,
\* << category, score >> in the table's order.
RECURSIVE ScoresFrom(_, _, _, _)
ScoresFrom(text, merchant, i, entries) ==
  IF i > Len(CATEGORY_KEYWORDS) THEN Returned(entries)
  ELSE LET s == ScoreFrom(text, merchant, CATEGORY_KEYWORDS[i][2], 1, 0)
       IN  IF s.threw THEN s
           ELSE ScoresFrom(text, merchant, i + 1,
                           Append(entries, << CATEGORY_KEYWORDS[i][1], s.value >>))

\* The callback of reduce: (a, b) => scores[a[0]] > scores[b[0]] ? a : b
ReduceStepMutC2(a, b) == IF a[2] >= b[2] THEN a ELSE b

ReduceStep(a, b) == IF a[2] > b[2] THEN a ELSE b

\* Array.prototype.reduce without an initial value, continued from entry i.
RECURSIVE ReduceFrom(_, _, _)
ReduceFrom(entries, i, acc) ==
  IF i > Len(entries) THEN acc
  ELSE ReduceFrom(entries, i + 1, ReduceStep(acc, entries[i]))

BestCategory(entries) == ReduceFrom(entries, 2, entries[1])

\* bestCategory[1] > 0 ? bestCategory[0] : 'Other'
PickMutC7(best) == best[1]

Pick(best) == IF best[2] > 0 THEN best[1] ELSE "Other"

\* The body of the try block.
CategorizeBody(input) ==
  LET h == Haystack(input)
  IN  IF h.threw THEN h
      ELSE LET scores == ScoresFrom(h.value, input.merchantName, 1, << >>)
           IN  IF scores.threw THEN scores
               ELSE Returned(Pick(BestCategory(scores.value)))

\* The catch block: log, return 'Other'.
CatchMutC8(completion) == Rejected(completion.error)

Catch(completion) == Resolved("Other")

categorizeReceipt(input) ==
  LET c == CategorizeBody(input)
  IN  IF c.threw THEN Catch(c) ELSE Resolved(c.value)

\* CATEGORY_KEYWORDS[category] || []
getCategoryKeywords(table, category) ==
  IF \E i \in 1..Len(table) : table[i][1] = category
  THEN table[CHOOSE i \in 1..Len(table) : table[i][1] = category][2]
  ELSE << >>

\* A call of categorizeReceipt that uses up the table's first entry and
\* answers from what is left.
CategorizeCallOutcomeMutC16(table, input) ==
  [result |-> IF Len(table) = Len(CATEGORY_KEYWORDS) THEN categorizeReceipt(input)
              ELSE Resolved("Other"),
   table |-> Tail(table)]

\* One call of categorizeReceipt against the module's table: what it resolves
\* to and the table it leaves. The function builds text, categoryScores and
\* bestCategory afresh in its own scope, reads the table through
\* Object.entries and assigns to none of its entries.
CategorizeCallOutcome(table, input) ==
  [result |-> categorizeReceipt(input), table |-> table]

(***************************************************************************)
(* ocrService: parseReceiptText                                            *)
(*                                                                         *)
(* Numbers are held in thousandths (parseFloat("5.50") is 5500), dates as  *)
(* [year, month, day].                                                     *)
(***************************************************************************)
WhiteSpace == {" ", "\t", "\n", "\r"}

\* The end (exclusive) of the longest run of characters of class C from i.
RunEnd(s, i, C) ==
  CHOOSE j \in i..(Len(s) + 1) :
    /\ \A k \in i..(j - 1) : CharAt(s, k) \in C
    /\ j = Len(s) + 1 \/ CharAt(s, j) \notin C

DigitAt(s, i) == i >= 1 /\ i <= Len(s) /\ IsDigit(CharAt(s, i))

\* String.prototype.trim
trim(s) ==
  IF \A k \in 1..Len(s) : CharAt(s, k) \in WhiteSpace THEN ""
  ELSE LET a == CHOOSE k \in 1..Len(s) :
                  /\ CharAt(s, k) \notin WhiteSpace
                  /\ \A j \in 1..(k - 1) : CharAt(s, j) \in WhiteSpace
           b == CHOOSE k \in 1..Len(s) :
                  /\ CharAt(s, k) \notin WhiteSpace
                  /\ \A j \in (k + 1)..Len(s) : CharAt(s, j) \in WhiteSpace
       IN  SubSeq(s, a, b)

\* text.split('\n')
RECURSIVE split(_)
split(s) ==
  IF \A k \in 1..Len(s) : CharAt(s, k) # "\n" THEN << s >>
  ELSE LET n == CHOOSE k \in 1..Len(s) :
                  /\ CharAt(s, k) = "\n"
                  /\ \A j \in 1..(k - 1) : CharAt(s, j) # "\n"
       IN  << SubSeq(s, 1, n - 1) >> \o split(SubSeq(s, n + 1, Len(s)))

\* text.split('\n').map(line => line.trim()).filter(line => line)
NormalizedLines(text) ==
  LET trimmed == [i \in 1..Len(split(text)) |-> trim(split(text)[i])]
  IN  SelectSeq(trimmed, LAMBDA line : line # "")

\* The value of a run of digits.
RECURSIVE DigitsValue(_)
DigitsValue(d) ==
  IF d = "" THEN 0
  ELSE 10 * DigitsValue(SubSeq(d, 1, Len(d) - 1))
         + (CHOOSE v \in 0..9 : CharAt(Digits, v + 1) = CharAt(d, Len(d)))

\* A JavaScript number: NaN, or a value in thousandths.
NaN == [nan |-> TRUE]
Number(v) == [nan |-> FALSE, v |-> v]

\* parseFloat of a string of the shape \d*\.?\d* ; NaN when it holds no digit
\* before or right after the point.
parseFloat(str) ==
  LET e == RunEnd(str, 1, DigitSet)
      hasDot == e <= Len(str) /\ CharAt(str, e) = "."
      f == IF hasDot THEN RunEnd(str, e + 1, DigitSet) ELSE e
      frac == IF hasDot THEN SubSeq(str, e + 1, f - 1) ELSE ""
      frac3 == SubSeq(frac \o "000", 1, 3)
  IN  IF e = 1 /\ frac = "" THEN NaN
      ELSE Number(1000 * DigitsValue(SubSeq(str, 1, e - 1)) + DigitsValue(frac3))

\* The end (exclusive) of a match of \d+\.?\d* that starts at the digit i.
NumberEnd(s, i) ==
  LET e == RunEnd(s, i, DigitSet)
  IN  IF e <= Len(s) /\ CharAt(s, e) = "." THEN RunEnd(s, e + 1, DigitSet) ELSE e

NoMatch == [found |-> FALSE]

(* Merchant name: lines 81-92 *)
MerchantCandidate(line) ==
  /\ \A k \in 1..Len(line) : ~IsDigit(CharAt(line, k))
  /\ ~includes(toLowerCase(line), "receipt")
  /\ ~includes(toLowerCase(line), "tax")
  /\ Len(line) > 3

Min(a, b) == IF a < b THEN a ELSE b

\* The scan taken over every line instead of the first three.
ExtractMerchantNameMutC11(lines) ==
  LET n == Len(lines)
  IN  IF \E i \in 1..n : MerchantCandidate(lines[i])
      THEN "merchantName" :>
             lines[CHOOSE i \in 1..n :
                     /\ MerchantCandidate(lines[i])
                     /\ \A j \in 1..(i - 1) : ~MerchantCandidate(lines[j])]
      ELSE << >>

ExtractMerchantName(lines) ==
  LET n == Min(3, Len(lines))
  IN  IF \E i \in 1..n : MerchantCandidate(lines[i])
      THEN "merchantName" :>
             lines[CHOOSE i \in 1..n :
                     /\ MerchantCandidate(lines[i])
                     /\ \A j \in 1..(i - 1) : ~MerchantCandidate(lines[j])]
      ELSE << >>

(* Total amount: lines 95-112 *)
TotalLabels == << "total", "amount", "sum" >>

\* (?:total|amount|sum) at i, case-insensitive: the end of the label, or 0.
LabelEnd(s, i) ==
  IF \E w \in 1..Len(TotalLabels) :
       /\ i + Len(TotalLabels[w]) - 1 <= Len(s)
       /\ toLowerCase(SubSeq(s, i, i + Len(TotalLabels[w]) - 1)) = TotalLabels[w]
  THEN i + Len(TotalLabels[CHOOSE w \in 1..Len(TotalLabels) :
                 /\ i + Len(TotalLabels[w]) - 1 <= Len(s)
                 /\ toLowerCase(SubSeq(s, i, i + Len(TotalLabels[w]) - 1))
                      = TotalLabels[w]])
  ELSE 0

\* /(?:total|amount|sum)[:\s]*\$?(\d+\.?\d*)/i tried at position i. The
\* classes of [:\s]*, \$? and \d+ are disjoint, so the greedy choice is the
\* only one that can match.
TotalMatchAt(s, i) ==
  LET e == LabelEnd(s, i)
      j == RunEnd(s, e, WhiteSpace \cup {":"})
      k == IF j <= Len(s) /\ CharAt(s, j) = "$" THEN j + 1 ELSE j
  IN  IF e # 0 /\ DigitAt(s, k)
      THEN [found |-> TRUE, group1 |-> SubSeq(s, k, NumberEnd(s, k) - 1)]
      ELSE NoMatch

\* text.match(totalRegex): the leftmost position that matches, from i on.
RECURSIVE TotalMatchFrom(_, _)
TotalMatchFrom(s, i) ==
  IF i > Len(s) THEN NoMatch
  ELSE IF TotalMatchAt(s, i).found THEN TotalMatchAt(s, i)
  ELSE TotalMatchFrom(s, i + 1)

\* The exec loop of /\$(\d+\.?\d*)/g from lastIndex i: the amounts pushed.
RECURSIVE DollarAmountsFrom(_, _)
DollarAmountsFrom(s, i) ==
  IF i > Len(s) THEN << >>
  ELSE IF CharAt(s, i) = "$" /\ DigitAt(s, i + 1)
  THEN << parseFloat(SubSeq(s, i + 1, NumberEnd(s, i + 1) - 1)).v >>
         \o DollarAmountsFrom(s, NumberEnd(s, i + 1))
  ELSE DollarAmountsFrom(s, i + 1)

\* The first amount pushed instead of the largest.
MathMaxMutC12(amounts) == amounts[1]

\* Math.max(...amounts)
MathMax(amounts) ==
  CHOOSE m \in { amounts[i] : i \in 1..Len(amounts) } :
    \A i \in 1..Len(amounts) : amounts[i] <= m

\* The else branch: the largest dollar amount, if any.
LargestDollarAmount(text) ==
  LET amounts == DollarAmountsFrom(text, 1)
  IN  IF Len(amounts) > 0 THEN "totalAmount" :> MathMax(amounts) ELSE << >>

\* The fallback taken whatever the labelled pattern finds.
ExtractTotalAmountMutC4(text) == LargestDollarAmount(text)

ExtractTotalAmount(text) ==
  LET totalMatch == TotalMatchFrom(text, 1)
  IN  IF totalMatch.found THEN "totalAmount" :> parseFloat(totalMatch.group1).v
      ELSE LargestDollarAmount(text)

(* Date: lines 114-122 *)
DateSeparators == {"/", "-", "."}

SepAt(s, i) == i >= 1 /\ i <= Len(s) /\ CharAt(s, i) \in DateSeparators

\* \d{2,4} at q: its end (exclusive), or 0 when fewer than two digits follow.
YearEnd(s, q) ==
  IF DigitAt(s, q) /\ DigitAt(s, q + 1)
  THEN IF DigitAt(s, q + 2) THEN (IF DigitAt(s, q + 3) THEN q + 4 ELSE q + 3) ELSE q + 2
  ELSE 0

\* \d{1,2}[\/\-\.]\d{2,4} at p: two digits are tried before one.
DayYearEnd(s, p) ==
  IF DigitAt(s, p) /\ DigitAt(s, p + 1) /\ SepAt(s, p + 2) /\ YearEnd(s, p + 3) # 0
  THEN YearEnd(s, p + 3)
  ELSE IF DigitAt(s, p) /\ SepAt(s, p + 1) /\ YearEnd(s, p + 2) # 0
  THEN YearEnd(s, p + 2)
  ELSE 0

\* /(\d{1,2}[\/\-\.]\d{1,2}[\/\-\.]\d{2,4})/ tried at position i.
DateMatchAt(s, i) ==
  IF DigitAt(s, i) /\ DigitAt(s, i + 1) /\ SepAt(s, i + 2) /\ DayYearEnd(s, i + 3) # 0
  THEN [found |-> TRUE, group1 |-> SubSeq(s, i, DayYearEnd(s, i + 3) - 1)]
  ELSE IF DigitAt(s, i) /\ SepAt(s, i + 1) /\ DayYearEnd(s, i + 2) # 0
  THEN [found |-> TRUE, group1 |-> SubSeq(s, i, DayYearEnd(s, i + 2) - 1)]
  ELSE NoMatch

\* text.match(dateRegex): the leftmost position that matches, from i on.
RECURSIVE DateMatchFrom(_, _)
DateMatchFrom(s, i) ==
  IF i > Len(s) THEN NoMatch
  ELSE IF DateMatchAt(s, i).found THEN DateMatchAt(s, i)
  ELSE DateMatchFrom(s, i + 1)

\* The three numbers of a matched date string.
DateComponents(str) ==
  LET e1 == RunEnd(str, 1, DigitSet)
      e2 == RunEnd(str, e1 + 1, DigitSet)
  IN  << DigitsValue(SubSeq(str, 1, e1 - 1)),
         DigitsValue(SubSeq(str, e1 + 1, e2 - 1)),
         DigitsValue(SubSeq(str, e2 + 1, Len(str))) >>

IsLeapYear(y) == (y % 4 = 0 /\ y % 100 # 0) \/ y % 400 = 0

DaysInMonth(y, m) ==
  IF m = 2 THEN (IF IsLeapYear(y) THEN 29 ELSE 28)
  ELSE IF m \in {4, 6, 9, 11} THEN 30 ELSE 31

InvalidDate == [t |-> "Invalid Date"]

\* A day past the end of its month carries into the next month. The day is
\* at most 31, so one carry is enough, and December has 31 days.
MakeDay(y, m, d) ==
  IF d <= DaysInMonth(y, m) THEN [year |-> y, month |-> m, day |-> d]
  ELSE [year |-> y, month |-> m + 1, day |-> d - DaysInMonth(y, m)]

\* new Date(string) for a string of three numbers that is not in the ISO
\* format. The language leaves this parse to the implementation; this is the
\* one of the Node.js runtime (V8) the service runs on: the numbers are read
\* as month, day, year, or as year, month, day when the first cannot be a day
\* of a month; years below 50 are in 2000, below 100 in 1900; the month must
\* be 1..12 and the day 1..31, whatever the month.
NewDate(str) ==
  LET c == DateComponents(str)
      ymd == ~(c[1] >= 1 /\ c[1] <= 31)
      y0 == IF ymd THEN c[1] ELSE c[3]
      m == IF ymd THEN c[2] ELSE c[1]
      d == IF ymd THEN c[3] ELSE c[2]
      y == IF y0 <= 49 THEN y0 + 2000 ELSE IF y0 <= 99 THEN y0 + 1900 ELSE y0
  IN  IF m >= 1 /\ m <= 12 /\ d >= 1 /\ d <= 31 THEN MakeDay(y, m, d)
      ELSE InvalidDate

ExtractDate(text) ==
  LET dateMatch == DateMatchFrom(text, 1)
  IN  IF dateMatch.found /\ NewDate(dateMatch.group1) # InvalidDate
      THEN "date" :> NewDate(dateMatch.group1)
      ELSE << >>

(* Line items: lines 133-162 *)
\* \d+\.?\d*$ at k: the price group, when it runs to the end of the line.
PriceAt(line, k) ==
  IF DigitAt(line, k) /\ NumberEnd(line, k) = Len(line) + 1
  THEN [found |-> TRUE, group3 |-> SubSeq(line, k, Len(line))]
  ELSE NoMatch

\* \s*\$?(\d+\.?\d*)$ at r. Its classes are disjoint, so the greedy choice is
\* the only one that can match.
ItemTailAt(line, r) ==
  LET j == RunEnd(line, r, WhiteSpace)
      k == IF j <= Len(line) /\ CharAt(line, j) = "$" THEN j + 1 ELSE j
  IN  PriceAt(line, k)

\* The end (exclusive) of the longest match of \d*\.?\d* at q.
QuantityMaxEnd(line, q) ==
  LET e == RunEnd(line, q, DigitSet)
  IN  IF e <= Len(line) /\ CharAt(line, e) = "." THEN RunEnd(line, e + 1, DigitSet)
      ELSE e

\* (\d*\.?\d*) at q followed by the tail: the quantity group gives back one
\* character at a time, from its longest match r down to the empty one.
RECURSIVE QuantityFrom(_, _, _)
QuantityFrom(line, q, r) ==
  IF r < q THEN NoMatch
  ELSE IF ItemTailAt(line, r).found
  THEN [found |-> TRUE, group2 |-> SubSeq(line, q, r - 1),
        group3 |-> ItemTailAt(line, r).group3]
  ELSE QuantityFrom(line, q, r - 1)

\* \s+(\d*\.?\d*)\s*\$?(\d+\.?\d*)$ after a name of n characters. A shorter
\* \s+ leaves the quantity group empty and the rest of the run to \s*, which
\* the longest \s+ with an empty quantity group matches the same way.
ItemRestAt(line, n) ==
  IF n + 1 <= Len(line) /\ CharAt(line, n + 1) \in WhiteSpace
  THEN LET q == RunEnd(line, n + 1, WhiteSpace)
       IN  QuantityFrom(line, q, QuantityMaxEnd(line, q))
  ELSE NoMatch

\* /^(.+?)\s+(\d*\.?\d*)\s*\$?(\d+\.?\d*)$/ : the lazy name group grows one
\* character at a time from n until the rest matches.
RECURSIVE ItemMatchFrom(_, _)
ItemMatchFrom(line, n) ==
  IF n >= Len(line) THEN NoMatch
  ELSE IF ItemRestAt(line, n).found
  THEN [found |-> TRUE, group1 |-> SubSeq(line, 1, n),
        group2 |-> ItemRestAt(line, n).group2, group3 |-> ItemRestAt(line, n).group3]
  ELSE ItemMatchFrom(line, n + 1)

\* The loop body without the test on the price.
LineItemsOfMutC14(line) ==
  LET match == ItemMatchFrom(line, 1)
  IN  IF ~match.found THEN << >>
      ELSE LET name == trim(match.group1)
               quantity == IF match.group2 # "" THEN parseFloat(match.group2)
                           ELSE Number(1000)
               price == parseFloat(match.group3)
           IN  IF name # "" /\ match.group3 # ""
               THEN << [name |-> name,
                        quantity |-> IF quantity.nan THEN 1000 ELSE quantity.v,
                        price |-> IF price.nan THEN 0 ELSE price.v] >>
               ELSE << >>

\* The body of the loop for one line: the items it pushes.
LineItemsOf(line) ==
  LET match == ItemMatchFrom(line, 1)
  IN  IF ~match.found THEN << >>
      ELSE LET name == trim(match.group1)
               quantity == IF match.group2 # "" THEN parseFloat(match.group2)
                           ELSE Number(1000)
               price == parseFloat(match.group3)
           IN  IF name # "" /\ match.group3 # "" /\ ~price.nan /\ price.v > 0
               THEN << [name |-> name,
                        quantity |-> IF quantity.nan THEN 1000 ELSE quantity.v,
                        price |-> price.v] >>
               ELSE << >>

RECURSIVE parseLineItems(_)
parseLineItems(lines) ==
  IF Len(lines) = 0 THEN << >>
  ELSE LineItemsOf(lines[1]) \o parseLineItems(Tail(lines))

ExtractItems(lines) ==
  IF Len(parseLineItems(lines)) > 0 THEN "items" :> parseLineItems(lines) ELSE << >>

\* The later extractions made only once a merchant name was found.
parseReceiptTextMutC15(text) ==
  LET lines == NormalizedLines(text)
  IN  IF ExtractMerchantName(lines) = << >> THEN << >>
      ELSE ExtractMerchantName(lines) @@ ExtractTotalAmount(text) @@ ExtractDate(text)
             @@ ExtractItems(lines)

parseReceiptText(text) ==
  LET lines == NormalizedLines(text)
  IN  ExtractMerchantName(lines) @@ ExtractTotalAmount(text) @@ ExtractDate(text)
        @@ ExtractItems(lines)

(***************************************************************************)
(* ocrService: processReceiptOCR and preprocessImage                       *)
(***************************************************************************)
\* The position of the last '/' of a path, 0 when it has none.
LastSlash(path) ==
  IF \E k \in 1..Len(path) : CharAt(path, k) = "/"
  THEN CHOOSE k \in 1..Len(path) :
         /\ CharAt(path, k) = "/"
         /\ \A j \in (k + 1)..Len(path) : CharAt(path, j) # "/"
  ELSE 0

\* path.join(path.dirname(imagePath), 'processed_' + path.basename(imagePath))
OutputPath(imagePath) ==
  SubSeq(imagePath, 1, LastSlash(imagePath)) \o "processed_"
    \o SubSeq(imagePath, LastSlash(imagePath) + 1, Len(imagePath))

\* The catch block of preprocessImage: the original path.
PreprocessCatchMutC9(imagePath) == OutputPath(imagePath)

PreprocessCatch(imagePath) == imagePath

\* The catch block of processReceiptOCR: log, throw a new Error.
OcrCatchMutC10(error) == Resolved([rawText |-> "", confidence |-> 0])

OcrCatch(error) == Rejected("Failed to process receipt with OCR")

\* { ...parsedData, rawText, confidence }
Merge(a, b) ==
  [k \in DOMAIN a \cup DOMAIN b |-> IF k \in DOMAIN b THEN b[k] ELSE a[k]]

OcrReturn(data) ==
  Merge(parseReceiptText(data.text),
        [rawText |-> data.text, confidence |-> data.confidence])

\* fs.unlinkSync
Unlink(fs, path) == [f \in DOMAIN fs \ {path} |-> fs[f]]

\* The locals of a call that has not started.
NoOcr ==
  [imagePath |-> "", preprocessedPath |-> "", preprocessFailed |-> FALSE,
   recognized |-> "", engineFailed |-> FALSE, result |-> Pending]

(***************************************************************************)
(* models/Receipt: the schema, its validation and its pre-save hook        *)
(***************************************************************************)
ReceiptCategories == CategoryNames \cup {"Other"}

PaymentMethods == {"cash", "card", "digital", "other"}

SchemaPaths ==
  { "userId", "merchantName", "totalAmount", "currency", "date", "category",
    "subcategory", "items", "tags", "paymentMethod", "taxAmount", "tipAmount",
    "description", "imageUrl", "ocrText", "confidence", "isVerified", "isArchived",
    "location" }

\* The clock: new Date().
Now == [year |-> 2026, month |-> 11, day |-> 3]

DateAfter(a, b) ==
  \/ a.year > b.year
  \/ a.year = b.year /\ a.month > b.month
  \/ a.year = b.year /\ a.month = b.month /\ a.day > b.day

\* new Receipt(data): the paths of the schema only (strict mode), with the
\* schema's defaults.
NewReceipt(data) ==
  Merge([confidence |-> 0, isVerified |-> FALSE, isArchived |-> FALSE,
         items |-> << >>, tags |-> << >>],
        [k \in DOMAIN data \cap SchemaPaths |-> data[k]])

Present(doc, path) == path \in DOMAIN doc

\* The validation save() runs first: required paths, enums and minima.
ValidReceipt(doc) ==
  /\ Present(doc, "userId")
  /\ Present(doc, "merchantName") /\ doc.merchantName # ""
  /\ Present(doc, "totalAmount") /\ doc.totalAmount >= 0
  /\ Present(doc, "currency") /\ Len(doc.currency) = 3
  /\ Present(doc, "date")
  /\ Present(doc, "category") /\ doc.category \in ReceiptCategories
  /\ Present(doc, "paymentMethod") /\ doc.paymentMethod \in PaymentMethods
  /\ \A k \in 1..Len(doc.items) :
       /\ doc.items[k].name # ""
       /\ doc.items[k].quantity >= 0
       /\ doc.items[k].price >= 0

\* The hook without the test on the date.
PreSaveMutC19(doc) ==
  LET confidence ==
        500 + (IF doc.merchantName # "" /\ doc.totalAmount # 0 THEN 200 ELSE 0)
            + (IF Len(doc.items) > 0 THEN 200 ELSE 0)
            + (IF Present(doc, "ocrText") /\ doc.ocrText # "" THEN 100 ELSE 0)
  IN  Merge(doc, [confidence |-> Min(confidence, 1000)])

\* receiptSchema.pre('save'): no future date, confidence from the data held.
\* Confidence is in thousandths.
PreSave(doc) ==
  LET confidence ==
        500 + (IF doc.merchantName # "" /\ doc.totalAmount # 0 THEN 200 ELSE 0)
            + (IF Len(doc.items) > 0 THEN 200 ELSE 0)
            + (IF Present(doc, "ocrText") /\ doc.ocrText # "" THEN 100 ELSE 0)
  IN  Merge(doc, [date |-> IF DateAfter(doc.date, Now) THEN Now ELSE doc.date,
                  confidence |-> Min(confidence, 1000)])

(***************************************************************************)
(* routes/receipts: POST /api/receipts                                     *)
(***************************************************************************)
HasText(data, field) == field \in DOMAIN data /\ data[field] # ""

\* isISO8601 on a calendar date: YYYY-MM-DD with a month 01..12 and a day
\* 01..31. A body carries its date as a string.
isISO8601(str) ==
  /\ Len(str) = 10
  /\ \A k \in {1, 2, 3, 4, 6, 7, 9, 10} : DigitAt(str, k)
  /\ CharAt(str, 5) = "-" /\ CharAt(str, 8) = "-"
  /\ DigitsValue(SubSeq(str, 6, 7)) \in 1..12
  /\ DigitsValue(SubSeq(str, 9, 10)) \in 1..31

\* new Date(value): a Date is copied; a string in the ISO calendar-date
\* format is read as year, month, day, a day past the end of its month
\* carrying into the next one.
DateOf(value) ==
  IF "t" \in DOMAIN value
  THEN MakeDay(DigitsValue(SubSeq(value.s, 1, 4)), DigitsValue(SubSeq(value.s, 6, 7)),
               DigitsValue(SubSeq(value.s, 9, 10)))
  ELSE value

\* The validators of the route: the fields are optional, and checked when
\* present.
ValidationErrors(body) ==
  \/ "merchantName" \in DOMAIN body /\ trim(body.merchantName) = ""
  \/ "totalAmount" \in DOMAIN body /\ body.totalAmount < 0
  \/ "date" \in DOMAIN body /\ ~isISO8601(body.date.s)
  \/ "category" \in DOMAIN body /\ body.category \notin ReceiptCategories

\* multer's filename: the field name, a suffix unique to the upload, the
\* extension.
UploadName(r) == "receipt-" \o NumToString(r) \o ".jpg"

UploadPath(r) == "uploads/receipts/" \o UploadName(r)

ImageUrl(r) == "/uploads/receipts/" \o UploadName(r)

\* { userId: req.user?.userId, ...req.body }
InitialReceiptData(userId, body) == Merge([userId |-> userId], body)

\* The merge with the OCR data laid over the manual input.
MergeOcrMutC18(ocrResult, data, r) ==
  Merge(Merge(data, ocrResult),
        [imageUrl |-> ImageUrl(r), ocrText |-> ocrResult.rawText])

\* The try branch: OCR data under the manual input, then the image and text.
MergeOcr(ocrResult, data, r) ==
  Merge(Merge(ocrResult, data),
        [imageUrl |-> ImageUrl(r), ocrText |-> ocrResult.rawText])

\* The catch branch: continue without OCR data.
WithoutOcr(data, r) == Merge(data, [imageUrl |-> ImageUrl(r)])

\* The argument the handler builds for categorizeReceipt.
CategorizationInputOf(data) ==
  [merchantName |-> JStr(data.merchantName),
   items |-> IF "items" \in DOMAIN data
             THEN JArr([k \in 1..Len(data.items) |-> JItem(JStr(data.items[k].name))])
             ELSE JArr(<< >>),
   description |-> IF "description" \in DOMAIN data THEN JStr(data.description)
                   ELSE JUndefined]

\* Lines 85-97: auto-categorize if no category was provided; a rejection
\* falls back to 'Other'.
AutoCategorize(data) ==
  IF ~HasText(data, "category") /\ HasText(data, "merchantName")
  THEN LET c == categorizeReceipt(CategorizationInputOf(data))
       IN  Merge(data, [category |-> IF c.t = "resolved" THEN c.value ELSE "Other"])
  ELSE data

\* Lines 99-102: the defaults.
SetDefaults(data) ==
  Merge(data,
        [date |-> IF "date" \in DOMAIN data THEN DateOf(data.date) ELSE Now,
         currency |-> IF HasText(data, "currency") THEN data.currency ELSE "USD",
         paymentMethod |-> IF HasText(data, "paymentMethod") THEN data.paymentMethod
                           ELSE "card"])

\* What the handler holds when it calls receipt.save().
ReadyToSave(data) == SetDefaults(AutoCategorize(data))

MaxRequests == 1

Requests == 1..MaxRequests

Users == {"u1", "u2"}

\* What jwt.verify makes of the Authorization header.
Tokens == { [valid |-> TRUE, userId |-> u] : u \in Users } \cup { [valid |-> FALSE] }

Bodies ==
  { << >>,
    [merchantName |-> "Corner Cafe", totalAmount |-> 9000, userId |-> "u2"],
    [category |-> "Travel"],
    [category |-> "Groceries"],
    [merchantName |-> "Corner Cafe", totalAmount |-> 9000, category |-> "Shopping",
     date |-> JStr("2020-01-15")],
    [date |-> JStr("2099-06-01")] }

\* What the recognition engine may return: data.text and data.confidence
\* already divided by 100, in thousandths.
OcrOutputs ==
  { [text |-> "", confidence |-> 0],
    [text |-> "Shell Gas\nTOTAL: $5.50\n12/31/2099", confidence |-> 870] }

NoRequest == [token |-> [valid |-> FALSE], body |-> << >>, file |-> FALSE]

PipeIdle ==
  /\ files = << >>
  /\ req = [r \in Requests |-> NoRequest]
  /\ pc = [r \in Requests |-> "idle"]
  /\ ocr = [r \in Requests |-> NoOcr]
  /\ receiptData = [r \in Requests |-> << >>]
  /\ response = [r \in Requests |-> Pending]
  /\ receipts = << >>

UnchangedOthers ==
  UNCHANGED << catInput, catResult, catScores, parseText, parseResult, callVars, cleanupVars,
                  byIdVars, ocrCallVars >>

\* auth rejects the token: 401, before multer stores anything.
Unauthorized(r) ==
  /\ pc[r] = "idle"
  /\ \E body \in Bodies, file \in BOOLEAN :
       req' = [req EXCEPT ![r] = [token |-> [valid |-> FALSE], body |-> body,
                                  file |-> file]]
  /\ pc' = [pc EXCEPT ![r] = "done"]
  /\ response' = [response EXCEPT ![r] = [status |-> 401]]
  /\ UNCHANGED << files, ocr, receiptData, receipts >>
  /\ UnchangedOthers

\* The request passes auth, multer stores the upload, the handler runs to its
\* first await: a 400 on validation errors; with a file, into
\* processReceiptOCR and preprocessImage up to sharp's toFile; without one, up
\* to receipt.save().
Receive(r) ==
  /\ pc[r] = "idle"
  /\ \E token \in Tokens, body \in Bodies, file \in BOOLEAN :
       /\ token.valid
       /\ req' = [req EXCEPT ![r] = [token |-> token, body |-> body, file |-> file]]
       /\ files' = IF file
                   THEN Merge(files, UploadPath(r) :> [kind |-> "upload", of |-> r])
                   ELSE files
       /\ IF ValidationErrors(body)
          THEN /\ pc' = [pc EXCEPT ![r] = "done"]
               /\ response' = [response EXCEPT ![r] = [status |-> 400]]
               /\ UNCHANGED << ocr, receiptData >>
          ELSE IF file
          THEN /\ pc' = [pc EXCEPT ![r] = "preprocessing"]
               /\ ocr' = [ocr EXCEPT ![r] = [NoOcr EXCEPT !.imagePath = UploadPath(r)]]
               /\ receiptData' = [receiptData EXCEPT
                                    ![r] = InitialReceiptData(token.userId, body)]
               /\ UNCHANGED response
          ELSE /\ pc' = [pc EXCEPT ![r] = "saving"]
               /\ receiptData' = [receiptData EXCEPT
                    ![r] = ReadyToSave(InitialReceiptData(token.userId, body))]
               /\ UNCHANGED << ocr, response >>
  /\ UNCHANGED receipts
  /\ UnchangedOthers

\* sharp's toFile settles: the artifact is written and its path returned, or
\* the catch block returns the original path; then Tesseract.recognize is
\* called on the path returned.
PreprocessDone(r) ==
  /\ pc[r] = "preprocessing"
  /\ \E ok \in BOOLEAN :
       LET imagePath == ocr[r].imagePath
           path == IF ok THEN OutputPath(imagePath) ELSE PreprocessCatch(imagePath)
       IN  /\ ok => imagePath \in DOMAIN files
           /\ files' = IF ok
                       THEN Merge(files, OutputPath(imagePath)
                                           :> [kind |-> "processed", of |-> r])
                       ELSE files
           /\ ocr' = [ocr EXCEPT ![r].preprocessedPath = path,
                                 ![r].preprocessFailed = ~ok,
                                 ![r].recognized = path]
  /\ pc' = [pc EXCEPT ![r] = "recognizing"]
  /\ UNCHANGED << req, receiptData, response, receipts >>
  /\ UnchangedOthers

\* The rest of processReceiptOCR once recognition has returned data: parse,
\* remove the artifact, return; the unlink throws when the file is gone.
OcrAfterRecognize(fs, o, data) ==
  IF o.preprocessedPath # o.imagePath /\ o.preprocessedPath \notin DOMAIN fs
  THEN [fs |-> fs, result |-> OcrCatch("ENOENT")]
  ELSE [fs |-> IF o.preprocessedPath # o.imagePath THEN Unlink(fs, o.preprocessedPath)
               ELSE fs,
        result |-> Resolved(OcrReturn(data))]

\* What the handler does with the settled processReceiptOCR, up to
\* receipt.save().
AfterOcr(result, data, r) ==
  ReadyToSave(IF result.t = "resolved" THEN MergeOcr(result.value, data, r)
              ELSE WithoutOcr(data, r))

\* Tesseract.recognize settles: it rejects, or returns text and confidence.
RecognizeDone(r) ==
  /\ pc[r] = "recognizing"
  /\ \/ \E data \in OcrOutputs :
          LET after == OcrAfterRecognize(files, ocr[r], data)
          IN  /\ ocr[r].recognized \in DOMAIN files
              /\ files' = after.fs
              /\ ocr' = [ocr EXCEPT ![r].result = after.result]
              /\ receiptData' = [receiptData EXCEPT
                                   ![r] = AfterOcr(after.result, receiptData[r], r)]
     \/ LET result == OcrCatch("recognize")
        IN  /\ ocr' = [ocr EXCEPT ![r].engineFailed = TRUE, ![r].result = result]
            /\ receiptData' = [receiptData EXCEPT
                                 ![r] = AfterOcr(result, receiptData[r], r)]
            /\ UNCHANGED files
  /\ pc' = [pc EXCEPT ![r] = "saving"]
  /\ UNCHANGED << req, response, receipts >>
  /\ UnchangedOthers

\* receipt.save() settles: validation first, then the pre-save hook and the
\* insert; 201 with the receipt, or the catch block's 500.
SaveDone(r) ==
  /\ pc[r] = "saving"
  /\ LET doc == NewReceipt(receiptData[r])
     IN  IF ValidReceipt(doc)
         THEN /\ receipts' = Append(receipts, PreSave(doc))
              /\ response' = [response EXCEPT
                                ![r] = [status |-> 201, receipt |-> PreSave(doc)]]
         ELSE /\ response' = [response EXCEPT ![r] = [status |-> 500]]
              /\ UNCHANGED receipts
  /\ pc' = [pc EXCEPT ![r] = "done"]
  /\ UNCHANGED << files, req, ocr, receiptData >>
  /\ UnchangedOthers

(***************************************************************************)
(* SpecCat: one call of categorizeReceipt on an input drawn from CatInputs *)
(***************************************************************************)
MaxItems == 1

CatMerchants ==
  { JStr("Gas"), JStr("Shell Gas"), JStr("Starbucks Coffee"), JStr("Random LLC"),
    JStr("Subway"), JStr("City Water Service"), JStr("Best"), JStr("Pizza Hut"),
    JStr("SPA"), JUndefined, JNum(401) }

CatDescriptions ==
  { JUndefined, JStr(""), JStr("coffee"), JStr("buy fuel for the bus"),
    JStr("gift tickets game music zoo") }

CatItemPool ==
  { JItem(JStr("Widget")), JItem(JStr("Fuel")), JItem(JUndefined), JNull }

SeqsUpTo(S, n) == UNION { [1..k -> S] : k \in 0..n }

CatItems ==
  { JUndefined, JStr("Widget") } \cup { JArr(a) : a \in SeqsUpTo(CatItemPool, MaxItems) }

CatInputs ==
  { [merchantName |-> m, description |-> d, items |-> i] :
      m \in CatMerchants, d \in CatDescriptions, i \in CatItems }

\* The input has the shape interface CategorizationInput declares.
WellTyped(input) ==
  /\ input.merchantName.t = "string"
  /\ input.description.t \in {"string", "undefined"}
  /\ \/ input.items.t = "undefined"
     \/ /\ input.items.t = "array"
        /\ \A i \in 1..Len(input.items.a) :
             /\ input.items.a[i].t = "object"
             /\ input.items.a[i].name.t = "string"

CatIdle ==
  /\ catInput = [merchantName |-> JUndefined, description |-> JUndefined,
                 items |-> JUndefined]
  /\ catResult = Pending
  /\ catScores = Pending

CatInputChosen ==
  /\ catInput \in CatInputs
  /\ catResult = Pending
  /\ catScores = Pending

\* The scores the call computed, when it got as far as computing them.
ScoresOf(input) ==
  LET h == Haystack(input)
  IN  IF h.threw THEN Pending
      ELSE LET scores == ScoresFrom(h.value, input.merchantName, 1, << >>)
           IN  IF scores.threw THEN Pending ELSE scores.value

Categorize ==
  /\ catResult = Pending
  /\ catResult' = categorizeReceipt(catInput)
  /\ catScores' = ScoresOf(catInput)
  /\ UNCHANGED << catInput, parseText, parseResult,
                  files, req, pc, ocr, receiptData, response, receipts, callVars, cleanupVars,
                  byIdVars, ocrCallVars >>

(***************************************************************************)
(* SpecParse: one call of parseReceiptText on a text drawn from ParseTexts *)
(***************************************************************************)
MaxLines == 3

ParseLinePool ==
  { "Corner Cafe", "Subtotal: $5.00", "TOTAL: $5.50", "Amount 3", "Milk $12.00",
    "02/30/2023", "Paid 01/15/2023", "Bagel 2 $3.50" }

\* The engine's transcription: up to MaxLines lines, line breaks kept.
ParseTexts == { join([i \in DOMAIN a |-> JStr(a[i])], "\n") :
                  a \in SeqsUpTo(ParseLinePool, MaxLines) }

ParseIdle ==
  /\ parseText = ""
  /\ parseResult = Pending

ParseTextChosen ==
  /\ parseText \in ParseTexts
  /\ parseResult = Pending

Parse ==
  /\ parseResult = Pending
  /\ parseResult' = parseReceiptText(parseText)
  /\ UNCHANGED << parseText, catInput, catResult, catScores,
                  files, req, pc, ocr, receiptData, response, receipts, callVars, cleanupVars,
                  byIdVars, ocrCallVars >>

(***************************************************************************)
(* SpecMerchant: parseReceiptText on texts whose lines exercise the        *)
(* merchant-name scan                                                      *)
(***************************************************************************)
MaxMerchantLines == 4

MerchantLinePool ==
  { "Corner Cafe", "  Deli ", "Sales TAX", "Store Receipt", "Abc", "Lane 7", "" }

MerchantTexts == { join([i \in DOMAIN a |-> JStr(a[i])], "\n") :
                     a \in SeqsUpTo(MerchantLinePool, MaxMerchantLines) }

MerchantTextChosen ==
  /\ parseText \in MerchantTexts
  /\ parseResult = Pending

(***************************************************************************)
(* SpecItems: parseReceiptText on texts whose lines exercise the line-item *)
(* pattern                                                                 *)
(***************************************************************************)
MaxItemLines == 2

ItemLinePool ==
  { "Bagel 2 $3.50", "Milk $4.99", "Milk 4.99", "Eggs 12", "Service Fee $-1.00",
    "Water $0.00", "Tea . $5", "Tip 1.5 2.25", "Gum 0 $1", "Corner Cafe" }

ItemTexts == { join([i \in DOMAIN a |-> JStr(a[i])], "\n") :
                 a \in SeqsUpTo(ItemLinePool, MaxItemLines) }

ItemTextChosen ==
  /\ parseText \in ItemTexts
  /\ parseResult = Pending

(***************************************************************************)
(* SpecCalls: calls of categorizeReceipt and getCategoryKeywords, in any   *)
(* order, against the one CATEGORY_KEYWORDS object of the process          *)
(***************************************************************************)
MaxCalls == 3

CallInputs ==
  { [merchantName |-> m, description |-> JUndefined, items |-> JUndefined] :
      m \in { JStr("Gas"), JStr("Starbucks Coffee"), JStr("Random LLC"), JNum(401) } }

CallCategories == { "Travel", "Groceries" }

CallsIdle ==
  /\ calls = << >>
  /\ keywordTable = CATEGORY_KEYWORDS

CategorizeCall(input) ==
  /\ Len(calls) < MaxCalls
  /\ LET out == CategorizeCallOutcome(keywordTable, input)
     IN  /\ calls' = Append(calls, [op |-> "categorizeReceipt", input |-> input,
                                    result |-> out.result])
         /\ keywordTable' = out.table
  /\ UNCHANGED << catInput, catResult, catScores, parseText, parseResult,
                  files, req, pc, ocr, receiptData, response, receipts, cleanupVars,
                  byIdVars, ocrCallVars >>

GetKeywordsCall(category) ==
  /\ Len(calls) < MaxCalls
  /\ calls' = Append(calls, [op |-> "getCategoryKeywords", input |-> category,
                             result |-> getCategoryKeywords(keywordTable, category)])
  /\ UNCHANGED << keywordTable, catInput, catResult, catScores, parseText, parseResult,
                  files, req, pc, ocr, receiptData, response, receipts, cleanupVars,
                  byIdVars, ocrCallVars >>

NextCalls ==
  \/ \E input \in CallInputs : CategorizeCall(input)
  \/ \E category \in CallCategories : GetKeywordsCall(category)

(***************************************************************************)
(* SpecCleanup: the daily cleanup job of config/cron against a collection  *)
(* of receipts, at the run times of RunTimes                               *)
(*                                                                         *)
(* A time is [year, month, day, hour].                                     *)
(***************************************************************************)
MaxStored == 2

\* '0 2 * * *': the job runs at 2 AM.
CleanupHour == 2

Time(y, m, d, h) == [year |-> y, month |-> m, day |-> d, hour |-> h]

\* a < b on Date values.
Before(a, b) ==
  \/ a.year < b.year
  \/ a.year = b.year /\ a.month < b.month
  \/ a.year = b.year /\ a.month = b.month /\ a.day < b.day
  \/ a.year = b.year /\ a.month = b.month /\ a.day = b.day /\ a.hour < b.hour

\* Date.prototype.setFullYear: the same month, day and time in year y, a day
\* the month does not have in year y carrying into the next month.
setFullYear(t, y) ==
  LET d == MakeDay(y, t.month, t.day)
  IN  Time(d.year, d.month, d.day, t.hour)

\* twoYearsAgo.setFullYear(twoYearsAgo.getFullYear() - 2)
TwoYearsAgo(now) == setFullYear(now, now.year - 2)

\* The filter with the age alone.
DeleteFilterMutC20(doc, twoYearsAgo) == Before(doc.createdAt, twoYearsAgo)

\* { createdAt: { $lt: twoYearsAgo }, isArchived: true }
DeleteFilter(doc, twoYearsAgo) ==
  /\ Before(doc.createdAt, twoYearsAgo)
  /\ doc.isArchived = TRUE

\* The ids Receipt.deleteMany selects.
Selected(coll, twoYearsAgo) ==
  { id \in DOMAIN coll : DeleteFilter(coll[id], twoYearsAgo) }

Without(coll, ids) == [id \in DOMAIN coll \ ids |-> coll[id]]

\* The catch block of the job: log; the callback's promise resolves and
\* the scheduler keeps its task.
CleanupCatch(error) == "scheduled"

\* The times of the job's runs the model visits: a leap day, and a day of
\* the same year after it.
RunTimes == << Time(2024, 2, 29, CleanupHour), Time(2024, 11, 3, CleanupHour) >>

\* When the receipts were created: all before the first run.
CreatedAts ==
  { Time(2022, 2, 28, 3), Time(2022, 3, 1, 1), Time(2022, 3, 1, 2),
    Time(2022, 11, 3, 1), Time(2023, 6, 15, 9) }

StoredDocs == [createdAt : CreatedAts, isArchived : BOOLEAN]

NoRun == [outcome |-> "none"]

CleanupIdle ==
  /\ collection = << >>
  /\ cleanupTime = 1
  /\ scheduler = "scheduled"
  /\ lastRun = NoRun

CollectionChosen ==
  /\ collection \in [1..MaxStored -> StoredDocs]
  /\ cleanupTime = 1
  /\ scheduler = "scheduled"
  /\ lastRun = NoRun

UnchangedByCleanup ==
  UNCHANGED << catInput, catResult, catScores, parseText, parseResult,
               files, req, pc, ocr, receiptData, response, receipts, callVars,
               byIdVars, ocrCallVars >>

\* The job runs and deleteMany resolves.
CleanupRun ==
  /\ scheduler = "scheduled"
  /\ LET twoYearsAgo == TwoYearsAgo(RunTimes[cleanupTime])
     IN  /\ collection' = Without(collection, Selected(collection, twoYearsAgo))
         /\ lastRun' = [outcome |-> "ok", at |-> RunTimes[cleanupTime],
                        before |-> collection]
  /\ UNCHANGED << cleanupTime, scheduler >>
  /\ UnchangedByCleanup

\* The job runs and deleteMany rejects, after the database removed none,
\* some or all of the selected receipts.
CleanupFail ==
  /\ scheduler = "scheduled"
  /\ LET twoYearsAgo == TwoYearsAgo(RunTimes[cleanupTime])
     IN  \E gone \in SUBSET Selected(collection, twoYearsAgo) :
           /\ collection' = Without(collection, gone)
           /\ lastRun' = [outcome |-> "failed", at |-> RunTimes[cleanupTime],
                          before |-> collection]
  /\ scheduler' = CleanupCatch("deleteMany")
  /\ UNCHANGED cleanupTime
  /\ UnchangedByCleanup

\* Time passes to the next run.
NextRunTime ==
  /\ cleanupTime < Len(RunTimes)
  /\ cleanupTime' = cleanupTime + 1
  /\ UNCHANGED << collection, scheduler, lastRun >>
  /\ UnchangedByCleanup

NextCleanup == CleanupRun \/ CleanupFail \/ NextRunTime

(***************************************************************************)
(* SpecById: GET, PUT, DELETE and PUT archive on /api/receipts/:id, each   *)
(* handler a process that gives way to the others at its awaits            *)
(***************************************************************************)
MaxOps == 2

Slots == 1..MaxOps

ReceiptIds == {"r1", "r2"}

\* The user whose POST created the receipt.
CreatedBy == [id \in ReceiptIds |-> IF id = "r1" THEN "u1" ELSE "u2"]

\* A receipt as POST /api/receipts builds and saves it for the user.
CreatedReceipt(userId) ==
  PreSave(NewReceipt(ReadyToSave(InitialReceiptData(userId,
            [merchantName |-> "Corner Cafe", totalAmount |-> 9000]))))

Routes == {"get", "put", "delete", "archive"}

\* The bodies of PUT /:id; the other routes read no body.
PutBodies ==
  { [merchantName |-> "Deli"], [userId |-> "u2"], [category |-> "Groceries"] }

\* The locals of a handler that has not been called.
NoOp ==
  [route |-> "get", token |-> [valid |-> FALSE], id |-> "r1", body |-> << >>,
   pc |-> "idle", found |-> JNull, receipt |-> JNull, status |-> 0]

ByIdIdle ==
  /\ stored = << >>
  /\ ops = << >>

StoreChosen ==
  /\ stored = [id \in ReceiptIds |-> CreatedReceipt(CreatedBy[id])]
  /\ ops = [k \in Slots |-> NoOp]

UnchangedByById ==
  UNCHANGED << catInput, catResult, catScores, parseText, parseResult,
               files, req, pc, ocr, receiptData, response, receipts, callVars,
               cleanupVars, ocrCallVars >>

\* Receipt.findOne({ _id, userId }): the document, or null.
FindOne(coll, id, userId) ==
  IF id \in DOMAIN coll /\ coll[id].userId = userId THEN coll[id] ELSE JNull

\* Object.assign(receipt, req.body): every own property of the body is set
\* on the document; the paths of the schema are kept, a date cast to a Date.
ObjectAssign(receipt, body) ==
  Merge(receipt, [f \in DOMAIN body \cap SchemaPaths |->
                    IF f = "date" THEN DateOf(body[f]) ELSE body[f]])

\* The paths save() sends in its update: those whose value is no longer the
\* one the document was loaded with.
ModifiedPaths(loaded, doc) ==
  { f \in DOMAIN doc : f \notin DOMAIN loaded \/ doc[f] # loaded[f] }

\* auth rejects the token: 401 before the handler runs.
UnauthorizedById(k) ==
  /\ ops[k].pc = "idle"
  /\ \E route \in Routes, id \in ReceiptIds :
       ops' = [ops EXCEPT ![k] = [NoOp EXCEPT !.route = route, !.id = id,
                                               !.pc = "done", !.status = 401]]
  /\ UNCHANGED stored
  /\ UnchangedByById

\* The request passes auth; PUT /:id answers 400 on validation errors; the
\* handler calls Receipt.findOne and awaits it.
ReceiveById(k) ==
  /\ ops[k].pc = "idle"
  /\ \E route \in Routes, token \in Tokens, id \in ReceiptIds,
        body \in PutBodies \cup { << >> } :
       /\ token.valid
       /\ route # "put" => body = << >>
       /\ LET op == [NoOp EXCEPT !.route = route, !.token = token, !.id = id,
                                 !.body = body]
          IN  ops' = [ops EXCEPT ![k] =
                        IF route = "put" /\ ValidationErrors(body)
                        THEN [op EXCEPT !.pc = "done", !.status = 400]
                        ELSE [op EXCEPT !.pc = "finding"]]
  /\ UNCHANGED stored
  /\ UnchangedByById

\* findOne resolves: 404 on null; GET answers with the receipt; PUT assigns
\* the body and isVerified and calls save(); archive negates isArchived and
\* calls save(); DELETE calls findByIdAndDelete.
FindDone(k) ==
  /\ ops[k].pc = "finding"
  /\ LET op == ops[k]
         receipt == FindOne(stored, op.id, op.token.userId)
     IN  ops' = [ops EXCEPT ![k] =
           IF receipt = JNull
           THEN [op EXCEPT !.pc = "done", !.status = 404]
           ELSE CASE op.route = "get" ->
                       [op EXCEPT !.found = receipt, !.receipt = receipt,
                                  !.pc = "done", !.status = 200]
                  [] op.route = "put" ->
                       [op EXCEPT !.found = receipt,
                                  !.receipt = Merge(ObjectAssign(receipt, op.body),
                                                    [isVerified |-> TRUE]),
                                  !.pc = "saving"]
                  [] op.route = "delete" ->
                       [op EXCEPT !.found = receipt, !.receipt = receipt,
                                  !.pc = "deleting"]
                  [] op.route = "archive" ->
                       [op EXCEPT !.found = receipt,
                                  !.receipt = Merge(receipt,
                                                [isArchived |-> ~receipt.isArchived]),
                                  !.pc = "saving"]]
  /\ UNCHANGED stored
  /\ UnchangedByById

\* receipt.save() settles: validation, the pre-save hook, then an update of
\* the modified paths of the document with that _id; it rejects when
\* validation fails or no document has the _id any more, and the catch block
\* answers 500.
SaveByIdDone(k) ==
  /\ ops[k].pc = "saving"
  /\ LET op == ops[k]
         saved == PreSave(op.receipt)
     IN  IF ValidReceipt(op.receipt) /\ op.id \in DOMAIN stored
         THEN /\ stored' = [stored EXCEPT ![op.id] =
                   Merge(@, [f \in ModifiedPaths(op.found, saved) |-> saved[f]])]
              /\ ops' = [ops EXCEPT ![k] = [op EXCEPT !.receipt = saved,
                                                     !.pc = "done", !.status = 200]]
         ELSE /\ ops' = [ops EXCEPT ![k] = [op EXCEPT !.pc = "done", !.status = 500]]
              /\ UNCHANGED stored
  /\ UnchangedByById

\* Receipt.findByIdAndDelete(req.params.id) resolves: the document with the
\* _id, if any, is gone.
DeleteDone(k) ==
  /\ ops[k].pc = "deleting"
  /\ stored' = Without(stored, {ops[k].id})
  /\ ops' = [ops EXCEPT ![k].pc = "done", ![k].status = 200]
  /\ UnchangedByById

\* The awaited database call rejects: the catch block answers 500.
DbRejects(k) ==
  /\ ops[k].pc \in {"finding", "saving", "deleting"}
  /\ ops' = [ops EXCEPT ![k].pc = "done", ![k].status = 500]
  /\ UNCHANGED stored
  /\ UnchangedByById

NextById ==
  \E k \in Slots :
    \/ UnauthorizedById(k)
    \/ ReceiveById(k)
    \/ FindDone(k)
    \/ SaveByIdDone(k)
    \/ DeleteDone(k)
    \/ DbRejects(k)

(***************************************************************************)
(* SpecOcrCalls: calls of processReceiptOCR on the images of one           *)
(* directory, interleaved at their awaits                                  *)
(***************************************************************************)
MaxOcrCalls == 2

OcrCalls == 1..MaxOcrCalls

\* The images of the directory the calls are made on.
SourcePaths == { "uploads/a.jpg", "uploads/processed_a.jpg", "uploads/b.jpg" }

SourceImage(path) == [kind |-> "source", of |-> path]

\* What sharp writes for the image it was given.
ProcessedImage(path) == [kind |-> "processed", of |-> path]

NoJob == [pc |-> "idle", ocr |-> NoOcr]

OcrCallsIdle ==
  /\ disk = << >>
  /\ jobs = << >>

DiskChosen ==
  /\ disk = [p \in SourcePaths |-> SourceImage(p)]
  /\ jobs = [j \in OcrCalls |-> NoJob]

UnchangedByOcrCalls ==
  UNCHANGED << catInput, catResult, catScores, parseText, parseResult,
               files, req, pc, ocr, receiptData, response, receipts, callVars,
               cleanupVars, byIdVars >>

\* processReceiptOCR(imagePath) is called on an image no other call was
\* given, and runs into preprocessImage up to sharp's toFile.
OcrCall(j) ==
  /\ jobs[j].pc = "idle"
  /\ \E imagePath \in SourcePaths :
       /\ \A other \in OcrCalls : jobs[other].ocr.imagePath # imagePath
       /\ jobs' = [jobs EXCEPT ![j] = [pc |-> "preprocessing",
                                       ocr |-> [NoOcr EXCEPT !.imagePath = imagePath]]]
  /\ UNCHANGED disk
  /\ UnchangedByOcrCalls

\* sharp's toFile settles: the artifact is written at outputPath, over any
\* file of that name, and its path returned, or the catch block returns the
\* original path; then Tesseract.recognize is called on the path returned.
OcrPreprocessDone(j) ==
  /\ jobs[j].pc = "preprocessing"
  /\ \E ok \in BOOLEAN :
       LET imagePath == jobs[j].ocr.imagePath
           path == IF ok THEN OutputPath(imagePath) ELSE PreprocessCatch(imagePath)
       IN  /\ ok => imagePath \in DOMAIN disk
           /\ disk' = IF ok
                      THEN Merge(disk, OutputPath(imagePath) :> ProcessedImage(imagePath))
                      ELSE disk
           /\ jobs' = [jobs EXCEPT ![j].pc = "recognizing",
                                   ![j].ocr.preprocessedPath = path,
                                   ![j].ocr.preprocessFailed = ~ok,
                                   ![j].ocr.recognized = path]
  /\ UnchangedByOcrCalls

\* Tesseract.recognize settles: it rejects, or returns text and confidence
\* and the call parses, removes its artifact and returns.
OcrRecognizeDone(j) ==
  /\ jobs[j].pc = "recognizing"
  /\ \/ \E data \in OcrOutputs :
          LET after == OcrAfterRecognize(disk, jobs[j].ocr, data)
          IN  /\ jobs[j].ocr.recognized \in DOMAIN disk
              /\ disk' = after.fs
              /\ jobs' = [jobs EXCEPT ![j].pc = "done",
                                      ![j].ocr.result = after.result]
     \/ /\ jobs' = [jobs EXCEPT ![j].pc = "done",
                                ![j].ocr.engineFailed = TRUE,
                                ![j].ocr.result = OcrCatch("recognize")]
        /\ UNCHANGED disk
  /\ UnchangedByOcrCalls

NextOcrCalls ==
  \E j \in OcrCalls :
    \/ OcrCall(j)
    \/ OcrPreprocessDone(j)
    \/ OcrRecognizeDone(j)

(***************************************************************************)
(* Claims about categorizeReceipt (SpecCat)                                *)
(***************************************************************************)
CatDone == catResult # Pending

KeywordSet(i) == { CATEGORY_KEYWORDS[i][2][j] : j \in 1..Len(CATEGORY_KEYWORDS[i][2]) }

\* The lowercased merchant name and haystack of a well-typed input, as the
\* specification describes them.
LowerMerchant(input) == toLowerCase(input.merchantName.s)

RECURSIVE SpacedNames(_)
SpacedNames(a) ==
  IF Len(a) = 0 THEN "" ELSE " " \o a[1].name.s \o SpacedNames(Tail(a))

LowerHaystack(input) ==
  toLowerCase(
    input.merchantName.s \o " "
      \o (IF input.description.t = "string" THEN input.description.s ELSE "")
      \o (IF input.items.t = "array" THEN SpacedNames(input.items.a) ELSE ""))

MerchantHits(i, merchant) == { k \in KeywordSet(i) : includes(merchant, k) }

IncidentalHits(i, merchant, haystack) ==
  { k \in KeywordSet(i) : includes(haystack, k) /\ ~includes(merchant, k) }

CategoryIndexes == 1..Len(CATEGORY_KEYWORDS)

\* Per category, 3 per merchant-name hit plus 1 per hit elsewhere in the
\* haystack.
WeightedScores(input) ==
  LET merchant == LowerMerchant(input)
      haystack == LowerHaystack(input)
  IN  [i \in CategoryIndexes |->
         3 * Cardinality(MerchantHits(i, merchant))
           + Cardinality(IncidentalHits(i, merchant, haystack))]

MaxOf(ws) == CHOOSE s \in { ws[i] : i \in DOMAIN ws } : \A i \in DOMAIN ws : ws[i] <= s

TiedAtMax(ws) == { i \in DOMAIN ws : ws[i] = MaxOf(ws) }

Earliest(S) == CHOOSE i \in S : \A j \in S : i <= j
Latest(S) == CHOOSE i \in S : \A j \in S : j <= i

TieAtPositiveMax(ws) == MaxOf(ws) > 0 /\ Cardinality(TiedAtMax(ws)) >= 2

C6_ScoreIsWeightedCount ==
  (CatDone /\ WellTyped(catInput)) =>
    /\ catScores # Pending
    /\ Len(catScores) = Len(CATEGORY_KEYWORDS)
    /\ LET ws == WeightedScores(catInput)
       IN  \A i \in CategoryIndexes :
             /\ catScores[i][1] = CATEGORY_KEYWORDS[i][1]
             /\ catScores[i][2] = ws[i]

\* C6 witness: a call has returned on "Starbucks Coffee" with the description
\* "buy fuel for the bus": Food & Dining has two merchant hits (6) and
\* Transportation two incidental ones (2).
C6_Witness ==
  /\ CatDone
  /\ WellTyped(catInput)
  /\ catInput.merchantName = JStr("Starbucks Coffee")
  /\ catInput.description = JStr("buy fuel for the bus")
  /\ catScores[1][2] = 6
  /\ catScores[2][2] = 2

NoKeywordMatches(input) ==
  LET haystack == LowerHaystack(input)
  IN  \A i \in CategoryIndexes : \A k \in KeywordSet(i) : ~includes(haystack, k)

\* C7: for a well-typed input categorizeReceipt returns 'Other' exactly when
\* no keyword of any category is a substring of the haystack; otherwise it
\* returns a key of CATEGORY_KEYWORDS whose score is the maximum.
C7_OtherIffNoMatch ==
  (CatDone /\ WellTyped(catInput)) =>
    /\ catResult.t = "resolved"
    /\ (catResult.value = "Other") <=> NoKeywordMatches(catInput)
    /\ catResult.value \in CategoryNames \cup {"Other"}
    /\ ~NoKeywordMatches(catInput) =>
         \E i \in TiedAtMax(WeightedScores(catInput)) :
           catResult.value = CATEGORY_KEYWORDS[i][1]

\* C7 witness: a call has returned 'Other' for "Random LLC" with the item
\* "Widget", where nothing matches.
C7_Witness ==
  /\ CatDone
  /\ catInput.merchantName = JStr("Random LLC")
  /\ catInput.items = JArr(<< JItem(JStr("Widget")) >>)
  /\ WellTyped(catInput)
  /\ NoKeywordMatches(catInput)
  /\ catResult = Resolved("Other")

\* C8: categorizeReceipt never rejects: for every input, malformed ones
\* included, the promise resolves, and a failure inside the try block
\* resolves to 'Other'.
C8_NeverRejects ==
  CatDone =>
    /\ catResult.t = "resolved"
    /\ CategorizeBody(catInput).threw => catResult = Resolved("Other")

\* C8 witness: a call has settled on an input without a merchant name whose
\* description holds a keyword, so that the try block threw.
C8_Witness ==
  /\ CatDone
  /\ catInput.merchantName = JUndefined
  /\ catInput.description = JStr("coffee")
  /\ CategorizeBody(catInput).threw

\* C17 (as claimed): whenever some category has a keyword inside the
\* merchant name and another category has keyword hits only in the
\* description or the item names, the category with only incidental hits is
\* not the one returned, however many incidental hits it has.
C17_MerchantHitDominates ==
  (CatDone /\ WellTyped(catInput)) =>
    LET merchant == LowerMerchant(catInput)
        haystack == LowerHaystack(catInput)
    IN  \A i \in CategoryIndexes :
          (/\ MerchantHits(i, merchant) = {}
           /\ IncidentalHits(i, merchant, haystack) # {}
           /\ \E j \in CategoryIndexes : MerchantHits(j, merchant) # {})
            => catResult # Resolved(CATEGORY_KEYWORDS[i][1])

ParseDone == parseResult # Pending

\* A label at i, then colons and white space, then an optional '$', then a
\* digit at k.
LabelledNumber(text, i, k) ==
  \E w \in {"total", "amount", "sum"} :
    /\ i + Len(w) <= k
    /\ toLowerCase(SubSeq(text, i, i + Len(w) - 1)) = w
    /\ DigitAt(text, k)
    /\ \E j \in {k - 1, k} :
         /\ j >= i + Len(w)
         /\ \A x \in (i + Len(w))..(j - 1) : CharAt(text, x) \in WhiteSpace \cup {":"}
         /\ j = k - 1 => CharAt(text, j) = "$"

LabelledNumbers(text) ==
  { p \in (1..Len(text)) \X (1..Len(text)) : LabelledNumber(text, p[1], p[2]) }

\* The decimal number that starts at the digit k.
DecimalAt(text, k) == parseFloat(SubSeq(text, k, NumberEnd(text, k) - 1)).v

\* The positions k where the text reads 'total: $X' (any case) with X
\* starting at k and 'total' starting a word.
TotalColonDollar(text) ==
  { k \in 9..Len(text) :
      /\ toLowerCase(SubSeq(text, k - 8, k - 1)) = "total: $"
      /\ DigitAt(text, k)
      /\ k - 8 = 1 \/ CharAt(text, k - 9) \in WhiteSpace }

\* C4 (as claimed): for every text that contains a labelled total of the
\* form 'total: $X', the extracted totalAmount equals X, whatever other
\* numbers, dollar amounts or occurrences of total/amount/sum it contains.
C4_LabelledTotalAlwaysWins ==
  ParseDone =>
    \A k \in TotalColonDollar(parseText) :
      /\ "totalAmount" \in DOMAIN parseResult
      /\ parseResult.totalAmount = DecimalAt(parseText, k)

\* C4 (amended): whenever the labelled pattern (total, amount or sum, also
\* inside a longer word; colons and white space; an optional '$'; a decimal)
\* matches somewhere, totalAmount is the number of its leftmost match,
\* whatever bare dollar amounts the text contains; only when it matches
\* nowhere does totalAmount come from the dollar amounts.
C4_LeftmostLabelWins ==
  ParseDone =>
    LET L == LabelledNumbers(parseText)
    IN  IF L # {}
        THEN LET first == CHOOSE p \in L : \A q \in L : p[1] <= q[1]
             IN  /\ "totalAmount" \in DOMAIN parseResult
                 /\ parseResult.totalAmount = DecimalAt(parseText, first[2])
        ELSE "totalAmount" \in DOMAIN parseResult =>
               \E k \in 2..Len(parseText) :
                 /\ CharAt(parseText, k - 1) = "$"
                 /\ DigitAt(parseText, k)
                 /\ parseResult.totalAmount = DecimalAt(parseText, k)

\* C4 witness: a text has been parsed that holds 'TOTAL: $5.50' before the
\* larger bare amount '$12.00' and no other label, with totalAmount 5.50; and
\* one that holds 'Subtotal: $5.00' before 'TOTAL: $5.50', with totalAmount
\* 5.00.
C4_Witness ==
  /\ ParseDone
  /\ \/ /\ parseText = "TOTAL: $5.50\nMilk $12.00"
        /\ parseResult.totalAmount = 5500
     \/ /\ parseText = "Subtotal: $5.00\nTOTAL: $5.50\nMilk $12.00"
        /\ parseResult.totalAmount = 5000

\* The first match of the date pattern, read as month, day, year, names a
\* day that month has.
ValidCalendarDate(str) ==
  LET c == DateComponents(str)
      y == IF c[3] <= 49 THEN c[3] + 2000 ELSE IF c[3] <= 99 THEN c[3] + 1900 ELSE c[3]
  IN  /\ c[1] >= 1 /\ c[1] <= 12
      /\ c[2] >= 1 /\ c[2] <= DaysInMonth(y, c[1])

\* C5: when the first substring matching the date pattern is not a valid
\* calendar date (02/30/2023), the result has no date field: no corrected,
\* rolled-over or clamped date, and no retry with a later match.
C5_InvalidDateIsAbsent ==
  (/\ ParseDone
   /\ DateMatchFrom(parseText, 1).found
   /\ ~ValidCalendarDate(DateMatchFrom(parseText, 1).group1))
    => "date" \notin DOMAIN parseResult

\* A line qualifies as a merchant name: no digit, neither 'receipt' nor
\* 'tax' in any mix of cases, more than 3 characters.
SpellsIgnoringCase(line, k, word) ==
  /\ k + Len(word) - 1 <= Len(line)
  /\ \A j \in 1..Len(word) :
       \/ CharAt(line, k + j - 1) = CharAt(word, j)
       \/ /\ CharAt(line, k + j - 1) \in DOMAIN LowerOf
          /\ LowerOf[CharAt(line, k + j - 1)] = CharAt(word, j)

QualifiesAsMerchant(line) ==
  /\ \A k \in 1..Len(line) : CharAt(line, k) \notin DigitSet
  /\ \A k \in 1..Len(line) :
       ~SpellsIgnoringCase(line, k, "receipt") /\ ~SpellsIgnoringCase(line, k, "tax")
  /\ Len(line) >= 4

\* C11: after trimming the lines and dropping the empty ones, merchantName
\* is the first of the first 3 lines that has no digit, contains neither
\* 'receipt' nor 'tax' (case-insensitively) and is longer than 3 characters;
\* when none of the first 3 qualifies merchantName is absent, even when a
\* later line would qualify.
C11_MerchantIsFirstQualifyingOfThree ==
  ParseDone =>
    LET lines == NormalizedLines(parseText)
        Q == { i \in 1..Len(lines) : i <= 3 /\ QualifiesAsMerchant(lines[i]) }
    IN  IF Q = {} THEN "merchantName" \notin DOMAIN parseResult
        ELSE /\ "merchantName" \in DOMAIN parseResult
             /\ parseResult.merchantName = lines[CHOOSE i \in Q : \A j \in Q : i <= j]

\* C11 witness: a text has been parsed whose first three lines do not
\* qualify (one holds 'TAX', one is 3 characters long, one holds a digit) and
\* whose fourth does, with no merchantName.
C11_Witness ==
  /\ ParseDone
  /\ parseText = "Sales TAX\nAbc\nLane 7\nCorner Cafe"
  /\ "merchantName" \notin DOMAIN parseResult

\* The labelled pattern matches nowhere: no 'total', 'amount' or 'sum' (in
\* any mix of cases) is followed, after colons and white space and an
\* optional '$', by a digit.
LabelMatchesNowhere(text) ==
  \A i \in 1..Len(text) : \A w \in {"total", "amount", "sum"} :
    SpellsIgnoringCase(text, i, w) =>
      LET j == RunEnd(text, i + Len(w), WhiteSpace \cup {":"})
      IN  /\ ~DigitAt(text, j)
          /\ ~(j <= Len(text) /\ CharAt(text, j) = "$" /\ DigitAt(text, j + 1))

\* The positions of the decimals that directly follow a '$'.
DollarDecimals(text) ==
  { k \in 2..Len(text) : CharAt(text, k - 1) = "$" /\ DigitAt(text, k) }

\* C12: for every text in which the labelled total/amount/sum pattern
\* matches nowhere, totalAmount is the maximum of all values written as
\* '$<decimal>' in the text, and is absent when the text has no such amount.
C12_FallbackIsLargestDollarAmount ==
  (ParseDone /\ LabelMatchesNowhere(parseText)) =>
    LET D == DollarDecimals(parseText)
    IN  IF D = {} THEN "totalAmount" \notin DOMAIN parseResult
        ELSE /\ "totalAmount" \in DOMAIN parseResult
             /\ \E k \in D : parseResult.totalAmount = DecimalAt(parseText, k)
             /\ \A k \in D : DecimalAt(parseText, k) <= parseResult.totalAmount

\* C12 witness: a text without a label whose dollar amounts are $3.50 and
\* then $12.00 has been parsed, with totalAmount 12.00.
C12_Witness ==
  /\ ParseDone
  /\ parseText = "Corner Cafe\nBagel 2 $3.50\nMilk $12.00"
  /\ parseResult.totalAmount = 12000

\* The tokens of a line: the pieces between single spaces.
RECURSIVE Words(_)
Words(line) ==
  IF \A k \in 1..Len(line) : CharAt(line, k) # " " THEN << line >>
  ELSE LET n == CHOOSE k \in 1..Len(line) :
                  /\ CharAt(line, k) = " "
                  /\ \A j \in 1..(k - 1) : CharAt(line, j) # " "
       IN  << SubSeq(line, 1, n - 1) >> \o Words(SubSeq(line, n + 1, Len(line)))

\* A token that is a decimal: digits, then possibly a point and digits.
IsDecimal(token) ==
  /\ DigitAt(token, 1)
  /\ NumberEnd(token, 1) = Len(token) + 1
  /\ CharAt(token, Len(token)) # "."

\* A token that is a whole number.
IsWhole(token) == token # "" /\ \A k \in 1..Len(token) : CharAt(token, k) \in DigitSet

\* A name token: letters only.
IsName(token) ==
  /\ token # ""
  /\ \A k \in 1..Len(token) :
       CharAt(token, k) \in DOMAIN LowerOf \cup { LowerOf[c] : c \in DOMAIN LowerOf }

\* A price token: a decimal, with or without a leading '$'.
WithoutDollar(token) ==
  IF token # "" /\ CharAt(token, 1) = "$" THEN SubSeq(token, 2, Len(token)) ELSE token

IsPrice(token) == IsDecimal(WithoutDollar(token))

PriceOf(token) == parseFloat(WithoutDollar(token)).v

\* The result holds this item.
HasItem(result, item) ==
  /\ "items" \in DOMAIN result
  /\ \E j \in 1..Len(result.items) : result.items[j] = item

\* C13 (as claimed): a line made of a name, a quantity token and a price
\* token yields an item with that name, quantity and price; a line made of
\* a name and a single trailing positive decimal price, with or without a
\* leading '$', yields an item with quantity 1 and the whole trailing
\* number as price.
C13_QuantityAndPriceTokens ==
  ParseDone =>
    \A i \in 1..Len(NormalizedLines(parseText)) :
      LET w == Words(NormalizedLines(parseText)[i])
      IN  /\ (/\ Len(w) = 3 /\ IsName(w[1]) /\ IsWhole(w[2]) /\ IsPrice(w[3])
              /\ PriceOf(w[3]) > 0)
               => HasItem(parseResult, [name |-> w[1],
                                        quantity |-> 1000 * DigitsValue(w[2]),
                                        price |-> PriceOf(w[3])])
          /\ (/\ Len(w) = 2 /\ IsName(w[1]) /\ IsPrice(w[2]) /\ PriceOf(w[2]) > 0)
               => HasItem(parseResult, [name |-> w[1], quantity |-> 1000,
                                        price |-> PriceOf(w[2])])

\* The line states no positive price: its last token is a zero amount or
\* an amount with a minus sign.
StatesNoPositivePrice(line) ==
  LET w == Words(line)
      last == WithoutDollar(w[Len(w)])
  IN  \/ IsDecimal(last) /\ parseFloat(last).v = 0
      \/ /\ Len(last) >= 2 /\ CharAt(last, 1) = "-"
         /\ IsDecimal(SubSeq(last, 2, Len(last)))

\* C14: every item returned has a non-empty name, a price strictly greater
\* than 0 and a quantity that is a number greater than or equal to 0; a line
\* whose price is zero or negative ('Water $0.00', 'Service Fee $-1.00')
\* yields no item, so the items are at most as many as the other lines.
C14_ItemsAreWellFormed ==
  ParseDone =>
    LET lines == NormalizedLines(parseText)
        items == IF "items" \in DOMAIN parseResult THEN parseResult.items ELSE << >>
    IN  /\ \A j \in 1..Len(items) :
             /\ items[j].name # ""
             /\ items[j].price \in Nat /\ items[j].price > 0
             /\ items[j].quantity \in Nat
        /\ Len(items) <= Cardinality({ i \in 1..Len(lines) :
                                        ~StatesNoPositivePrice(lines[i]) })
        /\ "items" \in DOMAIN parseResult => Len(parseResult.items) > 0

\* C14 witness: a text with a zero-price line and a priced line has been
\* parsed, and only the priced line gave an item.
C14_Witness ==
  /\ ParseDone
  /\ parseText = "Water $0.00\nBagel 2 $3.50"
  /\ parseResult.items = << [name |-> "Bagel", quantity |-> 2000, price |-> 3500] >>

\* The result's field f is what the extraction e alone gives: present with
\* the same value, or absent with it.
SameField(result, f, e) ==
  IF f \in DOMAIN e THEN f \in DOMAIN result /\ result[f] = e[f]
  ELSE f \notin DOMAIN result

OcrSettled(r) == ocr[r].result # Pending

ArtifactProduced(r) ==
  /\ ocr[r].preprocessedPath # ""
  /\ ocr[r].preprocessedPath # ocr[r].imagePath

\* C1: whenever preprocessing produced a 'processed_' artifact, the artifact
\* is gone from the file system once processReceiptOCR has settled, whether
\* it resolved or rejected.
C1_ArtifactDeletedOnEveryExit ==
  \A r \in Requests :
    (OcrSettled(r) /\ ArtifactProduced(r)) =>
      ocr[r].preprocessedPath \notin DOMAIN files

OcrExtractedNothing(r) ==
  \/ ocr[r].result.t = "rejected"
  \/ /\ ocr[r].result.t = "resolved"
     /\ "merchantName" \notin DOMAIN ocr[r].result.value
     /\ "totalAmount" \notin DOMAIN ocr[r].result.value

\* C3: a POST with an uploaded image and no manual fields, where OCR fails
\* or extracts no merchant name and no total, ends with 201 and a saved
\* receipt that carries the image reference and category 'Other', never
\* with an error response.
C3_UnreadableUploadIsSaved ==
  \A r \in Requests :
    (/\ pc[r] = "done"
     /\ req[r].token.valid
     /\ req[r].file
     /\ DOMAIN req[r].body = {}
     /\ OcrExtractedNothing(r))
      => /\ response[r].status = 201
         /\ response[r].receipt.imageUrl = ImageUrl(r)
         /\ response[r].receipt.category = "Other"
         /\ \E k \in 1..Len(receipts) : receipts[k] = response[r].receipt

\* C9: when preprocessing fails, preprocessImage returns the original path,
\* recognition runs on the source image as uploaded, and processReceiptOCR
\* rejects only if the recognition engine itself fails.
C9_PreprocessFailureFallsBack ==
  \A r \in Requests :
    ocr[r].preprocessFailed =>
      /\ ocr[r].preprocessedPath = ocr[r].imagePath
      /\ ocr[r].recognized = ocr[r].imagePath
      /\ ocr[r].imagePath \in DOMAIN files
      /\ files[ocr[r].imagePath] = [kind |-> "upload", of |-> r]
      /\ (OcrSettled(r) /\ ~ocr[r].engineFailed) => ocr[r].result.t = "resolved"

\* C9 witness: a call whose preprocessing failed has resolved with the text
\* the engine read from the source image.
C9_Witness ==
  \E r \in Requests :
    /\ ocr[r].preprocessFailed
    /\ ocr[r].recognized = UploadPath(r)
    /\ ocr[r].result.t = "resolved"
    /\ ocr[r].result.value.rawText # ""

\* The day a YYYY-MM-DD string names.
CalendarDate(str) ==
  [year |-> DigitsValue(SubSeq(str, 1, 4)), month |-> DigitsValue(SubSeq(str, 6, 7)),
   day |-> DigitsValue(SubSeq(str, 9, 10))]

OcrDerivedFields ==
  {"merchantName", "totalAmount", "items", "rawText", "confidence", "ocrText"}

\* C10: when the recognition engine fails, processReceiptOCR rejects and
\* hands the caller no result, and the handler's receipt data holds no
\* OCR-derived field: each such field it holds is the request body's, and
\* its date is the body's or the current time.
C10_EngineFailureGivesNoResult ==
  \A r \in Requests :
    ocr[r].engineFailed =>
      /\ ocr[r].result.t = "rejected"
      /\ "value" \notin DOMAIN ocr[r].result
      /\ \A f \in OcrDerivedFields \cap DOMAIN receiptData[r] :
           /\ f \in DOMAIN req[r].body
           /\ receiptData[r][f] = req[r].body[f]
      /\ receiptData[r].date =
           (IF "date" \in DOMAIN req[r].body THEN CalendarDate(req[r].body.date.s)
            ELSE Now)
      /\ receiptData[r].imageUrl = ImageUrl(r)

\* C10 witness: the engine failed on a request that carried its merchant name
\* and total in the body, and the receipt was saved from the body alone.
C10_Witness ==
  \E r \in Requests :
    /\ ocr[r].engineFailed
    /\ pc[r] = "done"
    /\ response[r].status = 201
    /\ response[r].receipt.merchantName = "Corner Cafe"
    /\ "ocrText" \notin DOMAIN response[r].receipt

\* The request was saved after a successful OCR of its upload.
SavedWithOcr(r) ==
  /\ pc[r] = "done"
  /\ req[r].file
  /\ ocr[r].result.t = "resolved"
  /\ response[r].status = 201

\* Apart from the date: each field of the body is saved with the body's
\* value, and merchantName, totalAmount and items come from the OCR result
\* exactly when the body omits them.
ManualFieldsWin(r) ==
  LET body == req[r].body
      saved == response[r].receipt
      fromOcr == ocr[r].result.value
  IN  /\ \A f \in DOMAIN body \ {"date"} : f \in DOMAIN saved /\ saved[f] = body[f]
      /\ \A f \in {"merchantName", "totalAmount", "items"} \ DOMAIN body :
           f \in DOMAIN fromOcr => saved[f] = fromOcr[f]
      /\ "category" \notin DOMAIN body =>
           saved.category \in ReceiptCategories

C19_SavedDateIsNeverInTheFuture ==
  /\ \A i \in 1..Len(receipts) : ~DateAfter(receipts[i].date, Now)
  /\ \A r \in Requests :
       (pc[r] = "done" /\ response[r].status = 201) =>
         response[r].receipt.date =
           (IF DateAfter(receiptData[r].date, Now) THEN Now ELSE receiptData[r].date)

\* C19 witness: a receipt whose date came from the OCR text as 12/31/2099
\* was saved with the current time as its date.
C19_Witness ==
  \E r \in Requests :
    /\ pc[r] = "done"
    /\ response[r].status = 201
    /\ receiptData[r].date = [year |-> 2099, month |-> 12, day |-> 31]
    /\ response[r].receipt.date = Now
    /\ Len(receipts) > 0

\* C21: every receipt created by POST /api/receipts is owned by the
\* authenticated requester: the saved receipt's userId is the userId of the
\* verified token, whatever fields, a userId included, the body carries.
C21_CreatedReceiptIsOwnedByRequester ==
  \A r \in Requests :
    (pc[r] = "done" /\ response[r].status = 201) =>
      response[r].receipt.userId = req[r].token.userId

(***************************************************************************)
(* Claims about the cleanup job (SpecCleanup)                              *)
(***************************************************************************)
\* The time two years before t: the same month, day and hour two years
\* earlier, and 1 March when t is a 29 February.
TwoYearsBefore(t) ==
  IF t.month = 2 /\ t.day = 29 THEN Time(t.year - 2, 3, 1, t.hour)
  ELSE Time(t.year - 2, t.month, t.day, t.hour)

\* A number that grows with the time.
Stamp(t) == ((t.year * 12 + t.month) * 31 + t.day) * 24 + t.hour

\* The receipt was archived and created more than two years before the run.
ArchivedAndOld(doc, at) ==
  /\ doc.isArchived
  /\ Stamp(doc.createdAt) < Stamp(TwoYearsBefore(at))

FoundOnlyOwnReceipts ==
  \A k \in Slots :
    ops[k].found # JNull => ops[k].found.userId = ops[k].token.userId

\* A handler answers 404 exactly when its find gave it no receipt, and such
\* a handler has called neither save nor findByIdAndDelete.
NotFoundMeansUntouched ==
  \A k \in Slots :
    ops[k].status = 404 => ops[k].found = JNull /\ ops[k].receipt = JNull

\* Every receipt in the collection is owned by the user who created it.
OwnerKept ==
  \A id \in DOMAIN stored : stored[id].userId = CreatedBy[id]

\* C22: GET, PUT, DELETE and archive on /api/receipts/:id reach a receipt
\* only when it is owned by the requester and answer 404 without touching it
\* otherwise, and whatever requests have run, every receipt still has the
\* userId it was created with: a userId in the body of a PUT changes nothing.
C22_OwnerOnlyAndOwnerKept ==
  /\ FoundOnlyOwnReceipts
  /\ NotFoundMeansUntouched
  /\ OwnerKept

\* The archive requests on the receipt that were answered 200.
SuccessfulArchives(id) ==
  { k \in Slots : /\ ops[k].route = "archive"
                  /\ ops[k].id = id
                  /\ ops[k].pc = "done"
                  /\ ops[k].status = 200 }

\* No request on the receipt is between its call and its answer.
Settled(id) ==
  \A k \in Slots : ops[k].id = id => ops[k].pc \in {"idle", "done"}

\* C24: once n archive requests on a receipt have been answered 200,
\* however their find and save steps were interleaved, isArchived is the
\* value the receipt was created with when n is even and its negation when n
\* is odd.
C24_ArchiveTogglesOncePerRequest ==
  \A id \in DOMAIN stored :
    Settled(id) =>
      LET original == CreatedReceipt(CreatedBy[id]).isArchived
          n == Cardinality(SuccessfulArchives(id))
      IN  stored[id].isArchived = IF n % 2 = 0 THEN original ELSE ~original

(***************************************************************************)
(* Claims about concurrent calls of processReceiptOCR (SpecOcrCalls)       *)
(***************************************************************************)
\* The image every call was given is on disk as it was before the calls.
SourcesIntact ==
  \A j \in OcrCalls :
    jobs[j].pc # "idle" =>
      /\ jobs[j].ocr.imagePath \in DOMAIN disk
      /\ disk[jobs[j].ocr.imagePath] = SourceImage(jobs[j].ocr.imagePath)

\* Between sharp writing a call's artifact and the call's return, the
\* artifact is on disk as that call wrote it.
ArtifactsIntact ==
  \A j \in OcrCalls :
    (jobs[j].pc = "recognizing" /\ ~jobs[j].ocr.preprocessFailed) =>
      /\ jobs[j].ocr.preprocessedPath \in DOMAIN disk
      /\ disk[jobs[j].ocr.preprocessedPath] = ProcessedImage(jobs[j].ocr.imagePath)

\* C23: processReceiptOCR never deletes or overwrites a source image: the
\* only file a call removes is the 'processed_' artifact it wrote itself,
\* and with calls running concurrently on images of one directory, one of
\* them named 'processed_...' included, no call writes to or removes the
\* source image or the artifact of another call.
C23_SourcesAndArtifactsAreNeverShared ==
  /\ SourcesIntact
  /\ ArtifactsIntact

(***************************************************************************)
(* Specifications                                                          *)
(***************************************************************************)
Init ==
  /\ PipeIdle /\ CatIdle /\ ParseIdle /\ CallsIdle /\ CleanupIdle
  /\ ByIdIdle /\ OcrCallsIdle

Next ==
  \E r \in Requests :
    \/ Unauthorized(r)
    \/ Receive(r)
    \/ PreprocessDone(r)
    \/ RecognizeDone(r)
    \/ SaveDone(r)

Spec == Init /\ [][Next]_vars

InitCat ==
  /\ CatInputChosen /\ ParseIdle /\ PipeIdle /\ CallsIdle /\ CleanupIdle
  /\ ByIdIdle /\ OcrCallsIdle

SpecCat == InitCat /\ [][Categorize]_vars

InitParse ==
  /\ ParseTextChosen /\ CatIdle /\ PipeIdle /\ CallsIdle /\ CleanupIdle
  /\ ByIdIdle /\ OcrCallsIdle

SpecParse == InitParse /\ [][Parse]_vars

InitMerchant ==
  /\ MerchantTextChosen /\ CatIdle /\ PipeIdle /\ CallsIdle /\ CleanupIdle
  /\ ByIdIdle /\ OcrCallsIdle

SpecMerchant == InitMerchant /\ [][Parse]_vars

InitItems ==
  /\ ItemTextChosen /\ CatIdle /\ PipeIdle /\ CallsIdle /\ CleanupIdle
  /\ ByIdIdle /\ OcrCallsIdle

SpecItems == InitItems /\ [][Parse]_vars

InitCalls ==
  /\ CallsIdle /\ CatIdle /\ ParseIdle /\ PipeIdle /\ CleanupIdle
  /\ ByIdIdle /\ OcrCallsIdle

SpecCalls == InitCalls /\ [][NextCalls]_vars

InitCleanup ==
  /\ CollectionChosen /\ CallsIdle /\ CatIdle /\ ParseIdle /\ PipeIdle
  /\ ByIdIdle /\ OcrCallsIdle

SpecCleanup == InitCleanup /\ [][NextCleanup]_vars

InitById ==
  /\ StoreChosen /\ PipeIdle /\ CatIdle /\ ParseIdle /\ CallsIdle /\ CleanupIdle
  /\ OcrCallsIdle

SpecById == InitById /\ [][NextById]_vars

InitOcrCalls ==
  /\ DiskChosen /\ PipeIdle /\ CatIdle /\ ParseIdle /\ CallsIdle /\ CleanupIdle
  /\ ByIdIdle

SpecOcrCalls == InitOcrCalls /\ [][NextOcrCalls]_vars

====
